---- MODULE Spec2Model ----
(***************************************************************************)
(* Retrieval and reranking pipeline of the repository:                     *)
(*   src/RAG/pipeline.py               RAG (load-or-build, retrieve)       *)
(*   src/fastapi_backend/RAG/reranker.py   Reranker.rerank                 *)
(* The corpus file, the two artifact files and one process that            *)
(* constructs a RAG object and then serves retrieve calls are the state.   *)
(***************************************************************************)
EXTENDS Integers, Sequences, FiniteSets, TLC

\* ------------------------------------------------------------------ bounds
MaxDocs == 3        \* longest corpus / candidate list
MaxBatch == 2       \* largest batch_size passed to the constructor
MaxScore == 1       \* relevance scores are 0..MaxScore
MaxThreads == 2     \* threads calling get_rag / get_feedback
MaxMade == 2        \* constructor calls that return, per singleton

\* ------------------------------------------------------------ data model
\* documents.json records: doc["title"], doc["content"]
DocPool ==
    { [title |-> "A", content |-> 0],
      [title |-> "B", content |-> 1],
      [title |-> "C", content |-> 2] }

Contents == { d.content : d \in DocPool }

\* query texts handed to retrieve / rerank
Queries == {0, 1}

SeqsUpTo(S, n) == UNION { [1..m -> S] : m \in 0..n }

Corpora == SeqsUpTo(DocPool, MaxDocs)

BatchSizes == 1..MaxBatch

\* top_k values; one more than the longest corpus so that k > N happens
TopKs == 1..(MaxDocs + 1)

Scores == 0..MaxScore

\* SentenceTransformer.encode on one text: a fixed function of the text
\* into a 2-dimensional vector (content 1 and content 2 are equidistant
\* from content 0).
EncodeOne(text) == << text % 2, text \div 2 >>

\* SentenceTransformer.encode(batch): one embedding per text, in order
Encode(texts) == [ i \in 1..Len(texts) |-> EncodeOne(texts[i]) ]

\* an encode call that returns embeddings of another dimension
EncodeWide(texts) ==
    [ i \in 1..Len(texts) |-> EncodeOne(texts[i]) \o << 0 >> ]

\* ---------------------------------------------------------- vector index
\* A faiss index object, or None (index = None in _build_index)
NoneIndex == [ exists |-> FALSE, d |-> 0, vecs |-> << >> ]

\* faiss.IndexFlatL2(dim): a fresh index of dimension dim holding nothing
IndexFlatL2(dim) == [ exists |-> TRUE, d |-> dim, vecs |-> << >> ]

\* batch_embeddings.shape[1]
Dim(embs) == IF embs = << >> THEN 0 ELSE Len(embs[1])

\* an add that takes embeddings of any dimension
AddRaisesNever(idx, embs) == FALSE

\* index.add(x) of the faiss wrapper starts with "assert d == self.d"
AddRaises(idx, embs) == Dim(embs) # idx.d

\* index.add(batch_embeddings): appends in order
IndexAdd(idx, embs) == [ idx EXCEPT !.vecs = @ \o embs ]

\* index.ntotal
NTotal(idx) == Len(idx.vecs)

\* a list of lists laid end to end
RECURSIVE Flatten(_)
Flatten(batches) ==
    IF batches = << >> THEN << >>
    ELSE Head(batches) \o Flatten(Tail(batches))

\* the content of an index file that holds nothing (absent or truncated)
NoBytes == [ fourcc |-> "", d |-> 0, ntotal |-> 0, xb |-> << >> ]

\* faiss.write_index(index, path): the type tag, d, ntotal and the
\* vectors as one flat array; a null index is written as the tag "null"
WriteIndex(idx) ==
    IF idx.exists
    THEN [ fourcc |-> "IxF2", d |-> idx.d, ntotal |-> NTotal(idx),
           xb |-> Flatten(idx.vecs) ]
    ELSE [ fourcc |-> "null", d |-> 0, ntotal |-> 0, xb |-> << >> ]

\* a read that takes the flat array as stored column by column
ReadIndexTransposed(bytes) ==
    IF bytes.fourcc = "null" THEN NoneIndex
    ELSE [ exists |-> TRUE, d |-> bytes.d,
           vecs |-> [ i \in 1..bytes.ntotal |->
                        [ j \in 1..bytes.d |->
                            bytes.xb[(j - 1) * bytes.ntotal + i] ] ] ]

\* faiss.read_index(path): vector i is the i-th run of d numbers
ReadIndex(bytes) ==
    IF bytes.fourcc = "null" THEN NoneIndex
    ELSE [ exists |-> TRUE, d |-> bytes.d,
           vecs |-> [ i \in 1..bytes.ntotal |->
                        SubSeq(bytes.xb, (i - 1) * bytes.d + 1,
                               i * bytes.d) ] ]

\* json.dump(self.docs, f): an array of objects, each the members of the
\* document in the order ijson read them
JsonDump(ds) ==
    [ i \in 1..Len(ds) |-> << << "title", ds[i].title >>,
                              << "content", ds[i].content >> >> ]

\* the value of the member of a JSON object with the given name
Member(obj, name) ==
    obj[CHOOSE m \in 1..Len(obj) : obj[m][1] = name][2]

\* json.load(f): every object becomes a dict keyed by member name
JsonLoad(text) ==
    [ i \in 1..Len(text) |-> [ title |-> Member(text[i], "title"),
                               content |-> Member(text[i], "content") ] ]

\* squared Euclidean distance of IndexFlatL2
L2Sqr(u, v) == (u[1] - v[1]) * (u[1] - v[1]) + (u[2] - v[2]) * (u[2] - v[2])

\* One entry of the k-slot result buffer of index.search; id = -1 is the
\* slot faiss initialises (distance +infinity, label -1).
EmptySlot == [ dis |-> 0, id |-> -1 ]

\* a.dis > b.dis, an empty slot counting as +infinity
DisGT(a, b) ==
    \/ a.id = -1 /\ b.id # -1
    \/ a.id # -1 /\ b.id # -1 /\ a.dis > b.dis

DisEQ(a, b) ==
    \/ a.id = -1 /\ b.id = -1
    \/ a.id # -1 /\ b.id # -1 /\ a.dis = b.dis

\* faiss CMax::cmp2: by distance, then by label
Cmp2(a, b) == DisGT(a, b) \/ (DisEQ(a, b) /\ a.id > b.id)

\* position of the buffer's top: the worst entry kept so far
HeapTop(slots) ==
    CHOOSE t \in 1..Len(slots) :
        /\ \A u \in 1..Len(slots) : ~Cmp2(slots[u], slots[t])
        /\ \A u \in 1..(t - 1) : Cmp2(slots[t], slots[u])

\* AddResult with "not farther" in place of "strictly nearer"
AddResultOnTies(slots, cand) ==
    IF ~DisGT(cand, slots[HeapTop(slots)])
    THEN [ slots EXCEPT ![HeapTop(slots)] = cand ]
    ELSE slots

\* add_result(dis, id): the candidate replaces the top only when it is
\* strictly nearer than the top
AddResult(slots, cand) ==
    IF DisGT(slots[HeapTop(slots)], cand)
    THEN [ slots EXCEPT ![HeapTop(slots)] = cand ]
    ELSE slots

\* the sequential scan of the stored vectors, labels 0 .. ntotal-1
RECURSIVE HeapScan(_, _, _, _)
HeapScan(vecs, qv, slots, j) ==
    IF j > Len(vecs) THEN slots
    ELSE HeapScan(vecs, qv,
                  AddResult(slots, [ dis |-> L2Sqr(vecs[j], qv), id |-> j - 1 ]),
                  j + 1)

\* heap_reorder: the buffer in ascending (distance, label) order
RECURSIVE InsertSlot(_, _)
InsertSlot(sorted, s) ==
    IF sorted = << >> THEN << s >>
    ELSE IF Cmp2(Head(sorted), s) THEN << s >> \o sorted
    ELSE << Head(sorted) >> \o InsertSlot(Tail(sorted), s)

RECURSIVE HeapReorder(_, _)
HeapReorder(slots, i) ==
    IF i > Len(slots) THEN << >>
    ELSE InsertSlot(HeapReorder(slots, i + 1), slots[i])

\* index.search(query_emb, top_k) for one query: indices[0], always k
\* labels, -1 where the index holds fewer than k vectors
IndexSearch(idx, qv, k) ==
    LET init == [ i \in 1..k |-> EmptySlot ]
        kept == HeapReorder(HeapScan(idx.vecs, qv, init, 1), 1)
    IN  [ i \in 1..k |-> kept[i].id ]

\* ------------------------------------------------------------- results
Ok(ds) == [ status |-> "ok", docs |-> ds ]
Raised(e) == [ status |-> e, docs |-> << >> ]

\* Python list subscription lst[i]: negative i counts from the end
PyInRange(lst, i) == -Len(lst) <= i /\ i < Len(lst)
PyItem(lst, i) == IF i >= 0 THEN lst[i + 1] ELSE lst[Len(lst) + i + 1]

\* RAG.retrieve(query, top_k) on a pipeline with fields index, docs
Retrieve(idx, ds, query, top_k) ==
    IF ~idx.exists THEN Raised("AttributeError")
    ELSE LET labels == IndexSearch(idx, EncodeOne(query), top_k)
         IN  IF \E i \in 1..top_k : ~PyInRange(ds, labels[i])
             THEN Raised("IndexError")
             ELSE Ok([ i \in 1..top_k |-> PyItem(ds, labels[i]) ])

\* ---------------------------------------------------------------- rerank
Reverse(xs) == [ i \in 1..Len(xs) |-> xs[Len(xs) + 1 - i] ]

\* key=lambda x: x[1] on a (doc, score) pair
Key(x) == x[2]

\* the stable ascending sort under list.sort: an element goes behind
\* every element whose key is not greater
RECURSIVE InsertByKey(_, _)
InsertByKey(sorted, x) ==
    IF sorted = << >> THEN << x >>
    ELSE IF Key(Head(sorted)) > Key(x) THEN << x >> \o sorted
    ELSE << Head(sorted) >> \o InsertByKey(Tail(sorted), x)

RECURSIVE SortAscending(_, _)
SortAscending(xs, n) ==
    IF n = 0 THEN << >>
    ELSE InsertByKey(SortAscending(xs, n - 1), xs[n])

\* SortedReverse without the reversal before the sort
SortedReverseUnstable(xs) == Reverse(SortAscending(xs, Len(xs)))

\* sorted(xs, key=..., reverse=True): CPython reverses the list, sorts it
\* ascending and stable, and reverses the result
SortedReverse(xs) == Reverse(SortAscending(Reverse(xs), Len(xs)))

\* xs[:n] for n >= 0
Slice(xs, n) == [ i \in 1..(IF Len(xs) < n THEN Len(xs) ELSE n) |-> xs[i] ]

\* pairs = [[query, doc["content"]] for doc in documents]
Pairs(query, documents) ==
    [ i \in 1..Len(documents) |-> << query, documents[i].content >> ]

\* zip(documents, scores)
Zip(documents, scores) ==
    [ i \in 1..Len(documents) |-> << documents[i], scores[i] >> ]

\* Reranker.rerank's lines after self.model.predict returned scores
RankByScore(documents, scores, top_k) ==
    LET scored_docs == SortedReverse(Zip(documents, scores))
        kept == Slice(scored_docs, top_k)
    IN  [ i \in 1..Len(kept) |-> kept[i][1] ]

\* ------------------------------------------------------------------ state
VARIABLES
    corpus,         \* documents.json: the sequence of records on disk
    indexFile,      \* rag.index:     [st, data], st in absent / torn / ok
    metaFile,       \* rag_meta.json: [st, data]
    pc,             \* where the process is: down, build, openIndex, ...
    force_rebuild,  \* constructor argument, while __init__ runs
    batch_size,     \* self.batch_size, read by the build only
    docs,           \* self.docs
    index,          \* _build_index's local index, then self.index
    batch,          \* _build_index's pending batch of contents
    pos,            \* records the stream has yielded so far
    origin,         \* which branch of __init__ ran: building, built, loaded
    call,           \* the last retrieve call and what it returned
    midWrite,       \* the last process died between the two artifact writes
    crossEncoder,   \* CrossEncoder weights: the score of every (query, text)
    rr,             \* the last rerank call and what it returned
    encodeCalls,    \* the batches the running __init__ handed to encode
    first,          \* a query call whose result the caller kept, and
                    \* whether a call with other arguments ran since
    rag,            \* singletons._rag: 0 for None, else the instance
    feedback,       \* singletons._feedback: 0 for None, else the instance
    lock,           \* singletons._lock: 0 when free, else its holder
    thread,         \* every thread's position in get_rag / get_feedback
    constructed     \* constructor calls that returned, per singleton

vars == << corpus, indexFile, metaFile, pc, force_rebuild, batch_size,
           docs, index, batch, pos, origin, call, midWrite, crossEncoder, rr,
           encodeCalls, first, rag, feedback, lock, thread,
           constructed >>

ranker == << crossEncoder, rr >>

services == << rag, feedback, lock, thread, constructed >>

disk == << indexFile, metaFile >>
args == << force_rebuild, batch_size >>
memory == << docs, index, batch, pos >>

Absent == "absent"
Torn == "torn"
Written == "ok"

NoIndexFile == [ st |-> Absent, data |-> NoBytes ]
NoMetaFile == [ st |-> Absent, data |-> << >> ]

\* os.path.exists(path)
Exists(file) == file.st # Absent

NoRerank == [ op |-> "none", query |-> 0, documents |-> << >>, top_k |-> 0,
              predicted |-> << >>, result |-> Ok(<< >>) ]

\* self.model.predict(pairs): one score per pair, a fixed function of it
Predict(pairs) == [ i \in 1..Len(pairs) |-> crossEncoder[pairs[i]] ]

\* What rerank(query, documents, top_k) can return. predict on an empty
\* list depends on the sentence-transformers build: it raises on
\* sentences[0], or it returns no scores.
RerankOutcomes(query, documents, top_k) ==
    IF documents = << >>
    THEN { Raised("IndexError"), Ok(<< >>) }
    ELSE { Ok(RankByScore(documents, Predict(Pairs(query, documents)), top_k)) }

\* a call on the pipeline: its arguments, the recall size it handed to
\* retrieve, the Reranker objects it constructed, the pair lists it handed
\* to predict, and what it returned or raised
Call(op, q, k, use, fault, recall, made, pairs, r) ==
    [ op |-> op, query |-> q, top_k |-> k, use_reranker |-> use,
      fault |-> fault, recall |-> recall, rerankers |-> made,
      predicted |-> pairs, result |-> r ]

NoCall == Call("none", 0, 0, FALSE, "none", 0, 0, << >>, Ok(<< >>))

NoneKept == [ call |-> NoCall, between |-> FALSE ]

\* threads of the web server that call the getters of singletons.py
Threads == 1..MaxThreads

\* a thread outside the getters; got is what its last call returned
Idle == [ fn |-> "none", pc |-> "idle", got |-> 0 ]

\* the module singletons.py just imported: nothing constructed, lock free
ServicesDown ==
    /\ rag = 0
    /\ feedback = 0
    /\ lock = 0
    /\ thread = [ t \in Threads |-> Idle ]
    /\ constructed = [ get_rag |-> 0, get_feedback |-> 0 ]

Init ==
    /\ corpus \in Corpora
    /\ indexFile = NoIndexFile
    /\ metaFile = NoMetaFile
    /\ pc = "down"
    /\ force_rebuild = FALSE
    /\ batch_size = 1
    /\ docs = << >>
    /\ index = NoneIndex
    /\ batch = << >>
    /\ pos = 0
    /\ origin = "none"
    /\ call = NoCall
    /\ midWrite = FALSE
    /\ crossEncoder = [ p \in Queries \X Contents |-> 0 ]
    /\ rr = NoRerank
    /\ encodeCalls = << >>
    /\ first = NoneKept
    /\ ServicesDown

\* ---------------------------------------------------------------- actions
\* documents are added to documents.json while no process runs ("set to
\* True if you add new docs")
EditCorpus ==
    /\ UNCHANGED << ranker, first, services >>
    /\ pc = "down"
    /\ Len(corpus) < MaxDocs
    /\ \E d \in DocPool : corpus' = Append(corpus, d)
    /\ UNCHANGED << disk, pc, args, memory, origin, call, midWrite,
                    encodeCalls >>

\* a load that takes the documents from the corpus file
LoadArtifactsRefreshing ==
    IF indexFile.st = Torn \/ metaFile.st = Torn
    THEN /\ pc' = "failed"
         /\ UNCHANGED << memory, origin, encodeCalls >>
    ELSE /\ index' = ReadIndex(indexFile.data)
         /\ docs' = corpus
         /\ pc' = "ready"
         /\ origin' = "loaded"
         /\ UNCHANGED << batch, pos, encodeCalls >>

\* the branch of RAG.__init__ that loads the persisted pair
LoadArtifacts ==
    IF indexFile.st = Torn \/ metaFile.st = Torn
    THEN \* faiss.read_index / json.load raises on a truncated file
         /\ pc' = "failed"
         /\ UNCHANGED << memory, origin, encodeCalls >>
    ELSE /\ index' = ReadIndex(indexFile.data)
         /\ docs' = JsonLoad(metaFile.data)
         /\ pc' = "ready"
         /\ origin' = "loaded"
         /\ UNCHANGED << batch, pos, encodeCalls >>

\* a build that appends to the metadata persisted before
BeginBuildReusing ==
    /\ docs' = IF metaFile.st = Written THEN JsonLoad(metaFile.data)
                                         ELSE << >>
    /\ index' = NoneIndex
    /\ batch' = << >>
    /\ pos' = 0
    /\ pc' = "build"
    /\ origin' = "building"
    /\ encodeCalls' = << >>

\* the branch of RAG.__init__ that starts a build
BeginBuild ==
    /\ docs' = << >>
    /\ index' = NoneIndex
    /\ batch' = << >>
    /\ pos' = 0
    /\ pc' = "build"
    /\ origin' = "building"
    /\ encodeCalls' = << >>

\* RAG(batch_size=bs, force_rebuild=f): up to the load-or-build decision
Construct(f, bs) ==
    /\ UNCHANGED << ranker, first, services >>
    /\ pc = "down"
    /\ IF ~f /\ Exists(indexFile) /\ Exists(metaFile)
       THEN /\ LoadArtifacts
            /\ UNCHANGED args
       ELSE /\ BeginBuild
            /\ force_rebuild' = f
            /\ batch_size' = bs
    /\ UNCHANGED << corpus, disk, call, midWrite >>

\* a flush that adds the embeddings of a batch last text first
FlushBatchReversed(idx, b) ==
    IndexAdd(IF idx.exists THEN idx ELSE IndexFlatL2(Dim(Encode(b))),
             Encode(Reverse(b)))

\* encode the batch and add it to the index, creating the index first
FlushBatch(idx, b) ==
    IndexAdd(IF idx.exists THEN idx ELSE IndexFlatL2(Dim(Encode(b))),
             Encode(b))

\* an iteration that flushes only once the batch exceeds batch_size
StreamDocFlushLate ==
    /\ UNCHANGED << ranker, first, services >>
    /\ pc = "build"
    /\ pos < Len(corpus)
    /\ LET doc == corpus[pos + 1]
           filled == Append(batch, doc.content)
       IN  /\ docs' = Append(docs, doc)
           /\ pos' = pos + 1
           /\ IF Len(filled) > batch_size
              THEN /\ index' = FlushBatch(index, filled)
                   /\ encodeCalls' = Append(encodeCalls, filled)
                   /\ batch' = << >>
              ELSE /\ index' = index
                   /\ encodeCalls' = encodeCalls
                   /\ batch' = filled
    /\ UNCHANGED << corpus, disk, pc, args, origin, call, midWrite >>

\* an iteration that also saves the index after each full batch
StreamDocWritingThrough ==
    /\ UNCHANGED << ranker, first, services >>
    /\ pc = "build"
    /\ pos < Len(corpus)
    /\ LET doc == corpus[pos + 1]
           filled == Append(batch, doc.content)
       IN  /\ docs' = Append(docs, doc)
           /\ pos' = pos + 1
           /\ IF Len(filled) >= batch_size
              THEN /\ index' = FlushBatch(index, filled)
                   /\ encodeCalls' = Append(encodeCalls, filled)
                   /\ batch' = << >>
                   /\ indexFile' = [ st |-> Written,
                                     data |-> WriteIndex(index') ]
              ELSE /\ index' = index
                   /\ encodeCalls' = encodeCalls
                   /\ batch' = filled
                   /\ indexFile' = indexFile
    /\ UNCHANGED << corpus, metaFile, pc, args, origin, call, midWrite >>

\* StreamDoc whose flush leaves the batch buffer as it is
StreamDocKeepingBatch ==
    /\ UNCHANGED << ranker, first, services >>
    /\ pc = "build"
    /\ pos < Len(corpus)
    /\ LET doc == corpus[pos + 1]
           filled == Append(batch, doc.content)
       IN  /\ docs' = Append(docs, doc)
           /\ pos' = pos + 1
           /\ batch' = filled
           /\ IF Len(filled) >= batch_size
              THEN /\ index' = FlushBatch(index, filled)
                   /\ encodeCalls' = Append(encodeCalls, filled)
              ELSE /\ index' = index
                   /\ encodeCalls' = encodeCalls
    /\ UNCHANGED << corpus, disk, pc, args, origin, call, midWrite >>

\* one iteration of "for doc in self._stream_docs()"
StreamDoc ==
    /\ UNCHANGED << ranker, first, services >>
    /\ pc = "build"
    /\ pos < Len(corpus)
    /\ LET doc == corpus[pos + 1]
           filled == Append(batch, doc.content)
       IN  /\ docs' = Append(docs, doc)
           /\ pos' = pos + 1
           /\ IF Len(filled) >= batch_size
              THEN /\ index' = FlushBatch(index, filled)
                   /\ encodeCalls' = Append(encodeCalls, filled)
                   /\ batch' = << >>
              ELSE /\ index' = index
                   /\ encodeCalls' = encodeCalls
                   /\ batch' = filled
    /\ UNCHANGED << corpus, disk, pc, args, origin, call, midWrite >>

\* LastBatch without the flush of the pending batch
LastBatchDropped ==
    /\ UNCHANGED << ranker, first, services >>
    /\ pc = "build"
    /\ pos = Len(corpus)
    /\ pc' = "openIndex"
    /\ UNCHANGED << corpus, disk, args, memory, origin, call, midWrite,
                    encodeCalls >>

\* LastBatch that encodes the pending batch even when it is empty
LastBatchUnguarded ==
    /\ UNCHANGED << ranker, first, services >>
    /\ pc = "build"
    /\ pos = Len(corpus)
    /\ index' = FlushBatch(index, batch)
    /\ encodeCalls' = Append(encodeCalls, batch)
    /\ pc' = "openIndex"
    /\ UNCHANGED << corpus, disk, args, docs, batch, pos, origin,
                    call, midWrite >>

\* the stream is exhausted: "Handle last batch", return index
LastBatch ==
    /\ UNCHANGED << ranker, first, services >>
    /\ pc = "build"
    /\ pos = Len(corpus)
    /\ index' = IF batch # << >> THEN FlushBatch(index, batch) ELSE index
    /\ encodeCalls' = IF batch # << >> THEN Append(encodeCalls, batch)
                                       ELSE encodeCalls
    /\ pc' = "openIndex"
    /\ UNCHANGED << corpus, disk, args, docs, batch, pos, origin,
                    call, midWrite >>

\* ijson raises on the next item of the corpus file, that document has no
\* "content", or encode raises on the pending batch: the exception leaves
\* _build_index and __init__
BuildFails ==
    /\ UNCHANGED << ranker, first, services >>
    /\ pc = "build"
    /\ pos < Len(corpus) \/ batch # << >>
    /\ pc' = "failed"
    /\ UNCHANGED << corpus, disk, args, memory, origin, call, midWrite,
                    encodeCalls >>

\* The iteration, or the last-batch step, in which encode returns
\* embeddings of another dimension than the index has: index.add raises
\* after the document was appended and the batch was encoded.
FlushOtherDimension ==
    /\ UNCHANGED << ranker, first, services >>
    /\ pc = "build"
    /\ index.exists
    /\ LET more == pos < Len(corpus)
           filled == IF more THEN Append(batch, corpus[pos + 1].content)
                             ELSE batch
           embs == EncodeWide(filled)
       IN  /\ IF more THEN Len(filled) >= batch_size ELSE batch # << >>
           /\ docs' = IF more THEN Append(docs, corpus[pos + 1]) ELSE docs
           /\ pos' = IF more THEN pos + 1 ELSE pos
           /\ encodeCalls' = Append(encodeCalls, filled)
           /\ IF AddRaises(index, embs)
              THEN /\ index' = index
                   /\ batch' = filled
                   /\ pc' = "failed"
              ELSE /\ index' = IndexAdd(index, embs)
                   /\ batch' = IF more THEN << >> ELSE batch
                   /\ pc' = IF more THEN "build" ELSE "openIndex"
    /\ UNCHANGED << corpus, disk, args, origin, call, midWrite >>

\* faiss.write_index opens index_path for writing: the file is truncated
OpenIndexFile ==
    /\ UNCHANGED << ranker, first, services >>
    /\ pc = "openIndex"
    /\ indexFile' = [ st |-> Torn, data |-> NoBytes ]
    /\ pc' = "writeIndex"
    /\ midWrite' = FALSE
    /\ UNCHANGED << corpus, metaFile, args, memory, origin, call,
                    encodeCalls >>

\* faiss.write_index serialises self.index. For index = None the faiss
\* build decides: it raises, or it writes the null index.
WriteIndexFile ==
    /\ UNCHANGED << ranker, first, services >>
    /\ pc = "writeIndex"
    /\ \/ /\ indexFile' = [ st |-> Written, data |-> WriteIndex(index) ]
          /\ pc' = "openMeta"
       \/ /\ ~index.exists
          /\ indexFile' = indexFile
          /\ pc' = "failed"
    /\ UNCHANGED << corpus, metaFile, args, memory, origin, call,
                    midWrite, encodeCalls >>

\* open(meta_path, "w"): the file is truncated
OpenMetaFile ==
    /\ UNCHANGED << ranker, first, services >>
    /\ pc = "openMeta"
    /\ metaFile' = [ st |-> Torn, data |-> << >> ]
    /\ pc' = "dumpMeta"
    /\ UNCHANGED << corpus, indexFile, args, memory, origin, call,
                    midWrite, encodeCalls >>

\* json.dump(self.docs, f) and the end of __init__
DumpMetaFile ==
    /\ UNCHANGED << ranker, first, services >>
    /\ pc = "dumpMeta"
    /\ metaFile' = [ st |-> Written, data |-> JsonDump(docs) ]
    /\ pc' = "ready"
    /\ origin' = "built"
    /\ midWrite' = FALSE
    /\ force_rebuild' = FALSE
    /\ batch_size' = 1
    /\ encodeCalls' = << >>
    /\ UNCHANGED << corpus, indexFile, memory, call >>

\* a retrieve that saves what it returned as the metadata file
RetrieveCallSaving(q, k) ==
    /\ UNCHANGED << ranker, first, services >>
    /\ pc = "ready"
    /\ call' = Call("retrieve", q, k, FALSE, "none", k, 0, << >>,
                     Retrieve(index, docs, q, k))
    /\ metaFile' = [ st |-> Written, data |-> JsonDump(call'.result.docs) ]
    /\ UNCHANGED << corpus, indexFile, pc, args, memory, origin, midWrite,
                    encodeCalls >>

\* rag.retrieve(query, top_k=k) on the constructed pipeline
RetrieveCall(q, k) ==
    /\ UNCHANGED << ranker, first, services >>
    /\ pc = "ready"
    /\ call' = Call("retrieve", q, k, FALSE, "none", k, 0, << >>,
                     Retrieve(index, docs, q, k))
    /\ UNCHANGED << corpus, disk, pc, args, memory, origin, midWrite,
                    encodeCalls >>

\* the process dies during construction; memory is lost, files stay
Crash ==
    /\ UNCHANGED << ranker, first, services >>
    /\ pc \in { "build", "openIndex", "writeIndex", "openMeta", "dumpMeta" }
    /\ midWrite' = (midWrite \/ pc = "openMeta")
    /\ pc' = "down"
    /\ docs' = << >>
    /\ index' = NoneIndex
    /\ batch' = << >>
    /\ pos' = 0
    /\ origin' = "none"
    /\ call' = NoCall
    /\ force_rebuild' = FALSE
    /\ batch_size' = 1
    /\ encodeCalls' = << >>
    /\ UNCHANGED << corpus, disk >>

\* the process ends: after serving, or after __init__ raised
Exit ==
    /\ UNCHANGED << ranker, first, services >>
    /\ pc \in { "ready", "failed" }
    /\ pc' = "down"
    /\ docs' = << >>
    /\ index' = NoneIndex
    /\ batch' = << >>
    /\ pos' = 0
    /\ origin' = "none"
    /\ call' = NoCall
    /\ force_rebuild' = FALSE
    /\ batch_size' = 1
    /\ encodeCalls' = << >>
    /\ UNCHANGED << corpus, disk, midWrite >>

Next ==
    \/ EditCorpus
    \/ \E f \in BOOLEAN, bs \in BatchSizes : Construct(f, bs)
    \/ StreamDoc
    \/ LastBatch
    \/ BuildFails
    \/ FlushOtherDimension
    \/ OpenIndexFile
    \/ WriteIndexFile
    \/ OpenMetaFile
    \/ DumpMetaFile
    \/ \E q \in Queries, k \in TopKs : RetrieveCall(q, k)
    \/ Crash
    \/ Exit

Spec == Init /\ [][Next]_vars

\* ------------------------------------------ builds that nothing disturbs
\* Constructions on a well-formed corpus with an encoder that returns and
\* a process that is not killed: every step that can be taken is taken.
NextStream ==
    \/ EditCorpus
    \/ \E f \in BOOLEAN, bs \in BatchSizes : Construct(f, bs)
    \/ StreamDoc
    \/ LastBatch
    \/ OpenIndexFile
    \/ WriteIndexFile
    \/ OpenMetaFile
    \/ DumpMetaFile
    \/ Exit

SpecStream == Init /\ [][NextStream]_vars /\ WF_vars(NextStream)

\* ---------------------------------------------------------- RAG.query
\* rerank(self, query, documents, top_k=3): query never passes top_k
DefaultTopK == 3

\* RAG/main.py: self.retrieve(query, top_k=3)
FixedRecall == 3

\* what the environment does to the models during a call: nothing,
\* predict raises, or encode raises
Faults == { "none", "model", "encoder" }

\* self.retrieve(query, top_k=k) under a fault: encode comes first
RetrieveOutcome(fault, q, k) ==
    IF fault = "encoder" THEN Raised("EncoderError")
    ELSE Retrieve(index, docs, q, k)

\* query that answers a failed retrieve with an empty list
QueryOutcomesSwallowing(op, q, use, k, recall, fault) ==
    LET got == RetrieveOutcome(fault, q, recall)
        pairs == << Pairs(q, got.docs) >>
    IN  IF got.status # "ok"
        THEN { Call(op, q, k, use, fault, recall, 0, << >>, Ok(<< >>)) }
        ELSE IF ~use
        THEN { Call(op, q, k, use, fault, recall, 0, << >>, got) }
        ELSE IF fault = "model"
        THEN { Call(op, q, k, use, fault, recall, 1, pairs,
                    Raised("ModelError")) }
        ELSE { Call(op, q, k, use, fault, recall, 1, pairs, r) :
                   r \in RerankOutcomes(q, got.docs, DefaultTopK) }

\* query that reranks whatever use_reranker says
QueryOutcomesAlwaysRerank(op, q, use, k, recall, fault) ==
    LET got == RetrieveOutcome(fault, q, recall)
        pairs == << Pairs(q, got.docs) >>
    IN  IF got.status # "ok"
        THEN { Call(op, q, k, use, fault, recall, 0, << >>, got) }
        ELSE IF fault = "model"
        THEN { Call(op, q, k, use, fault, recall, 1, pairs,
                    Raised("ModelError")) }
        ELSE { Call(op, q, k, use, fault, recall, 1, pairs, r) :
                   r \in RerankOutcomes(q, got.docs, DefaultTopK) }

\* query that answers a failed predict with the retrieved documents
QueryOutcomesFallback(op, q, use, k, recall, fault) ==
    LET got == RetrieveOutcome(fault, q, recall)
        pairs == << Pairs(q, got.docs) >>
    IN  IF got.status # "ok" \/ ~use
        THEN { Call(op, q, k, use, fault, recall, 0, << >>, got) }
        ELSE IF fault = "model"
        THEN { Call(op, q, k, use, fault, recall, 1, pairs, got) }
        ELSE { Call(op, q, k, use, fault, recall, 1, pairs, r) :
                   r \in RerankOutcomes(q, got.docs, DefaultTopK) }

\* query that hands the top_k of its caller on to rerank
QueryOutcomesPassingTopK(op, q, use, k, recall, fault) ==
    LET got == RetrieveOutcome(fault, q, recall)
        pairs == << Pairs(q, got.docs) >>
    IN  IF got.status # "ok" \/ ~use
        THEN { Call(op, q, k, use, fault, recall, 0, << >>, got) }
        ELSE IF fault = "model"
        THEN { Call(op, q, k, use, fault, recall, 1, pairs,
                    Raised("ModelError")) }
        ELSE { Call(op, q, k, use, fault, recall, 1, pairs, r) :
                   r \in RerankOutcomes(q, got.docs, k) }

\* Every way query can end: the call named op asked for k documents and
\* hands recall to retrieve. retrieve's exception leaves query before a
\* Reranker exists; predict's exception leaves it from inside rerank.
QueryOutcomes(op, q, use, k, recall, fault) ==
    LET got == RetrieveOutcome(fault, q, recall)
        pairs == << Pairs(q, got.docs) >>
    IN  IF got.status # "ok" \/ ~use
        THEN { Call(op, q, k, use, fault, recall, 0, << >>, got) }
        ELSE IF fault = "model"
        THEN { Call(op, q, k, use, fault, recall, 1, pairs,
                    Raised("ModelError")) }
        ELSE { Call(op, q, k, use, fault, recall, 1, pairs, r) :
                   r \in RerankOutcomes(q, got.docs, DefaultTopK) }

\* two calls were made with identical arguments
SameArguments(a, b) ==
    /\ a.op = b.op
    /\ a.query = b.query
    /\ a.use_reranker = b.use_reranker
    /\ a.top_k = b.top_k

\* query that leaves self.docs in the reverse order
QueryCallReordering(q, use, k, fault) ==
    /\ UNCHANGED << ranker, services >>
    /\ pc = "ready"
    /\ call.op = "none"
    /\ call' \in QueryOutcomes("query", q, use, k, k, fault)
    /\ first' = IF first.call.op = "none" \/ SameArguments(first.call, call')
                THEN first
                ELSE [ first EXCEPT !.between = TRUE ]
    /\ docs' = Reverse(docs)
    /\ UNCHANGED << corpus, disk, pc, args, index, batch, pos, origin,
                    midWrite, encodeCalls >>

\* pipeline.py's query handing main.py's fixed recall size to retrieve
QueryCallFixedRecall(q, use, k, fault) ==
    /\ UNCHANGED << ranker, services >>
    /\ pc = "ready"
    /\ call.op = "none"
    /\ call' \in QueryOutcomes("query", q, use, k, FixedRecall, fault)
    /\ first' = IF first.call.op = "none" \/ SameArguments(first.call, call')
                THEN first
                ELSE [ first EXCEPT !.between = TRUE ]
    /\ UNCHANGED << corpus, disk, pc, args, memory, origin, midWrite,
                    encodeCalls >>

\* rag.query(query, use_reranker=use, top_k=k) of RAG/pipeline.py
QueryCall(q, use, k, fault) ==
    /\ UNCHANGED << ranker, services >>
    /\ pc = "ready"
    /\ call.op = "none"
    /\ call' \in QueryOutcomes("query", q, use, k, k, fault)
    /\ first' = IF first.call.op = "none" \/ SameArguments(first.call, call')
                THEN first
                ELSE [ first EXCEPT !.between = TRUE ]
    /\ UNCHANGED << corpus, disk, pc, args, memory, origin, midWrite,
                    encodeCalls >>

\* rag.query(query, use_reranker=use) of RAG/main.py, whose __init__
\* always encodes the whole corpus into a new index
QueryMainCall(q, use, fault) ==
    /\ UNCHANGED << ranker, first, services >>
    /\ pc = "ready"
    /\ call.op = "none"
    /\ index.exists
    /\ NTotal(index) = Len(docs)
    /\ call' \in QueryOutcomes("query_main", q, use, FixedRecall,
                               FixedRecall, fault)
    /\ UNCHANGED << corpus, disk, pc, args, memory, origin, midWrite,
                    encodeCalls >>

\* the caller is done with what the call returned
ReturnCall ==
    /\ UNCHANGED << ranker, first, services >>
    /\ pc = "ready"
    /\ call.op # "none"
    /\ call' = NoCall
    /\ UNCHANGED << corpus, disk, pc, args, memory, origin, midWrite,
                    encodeCalls >>

\* the caller keeps what a query call returned, to compare it later
KeepResult ==
    /\ pc = "ready"
    /\ call.op = "query"
    /\ call.fault = "none"
    /\ first.call.op = "none"
    /\ first' = [ call |-> call, between |-> FALSE ]
    /\ UNCHANGED << corpus, disk, pc, args, memory, origin, call, midWrite,
                    ranker, encodeCalls, services >>

\* the index a finished build leaves for a corpus
BuiltIndex(c) ==
    IF c = << >> THEN NoneIndex
    ELSE FlushBatch(NoneIndex, [ i \in 1..Len(c) |-> c[i].content ])

\* scoring models that prefer one text over all others
QueryWeights ==
    { [ p \in Queries \X Contents |-> IF p[2] = t THEN MaxScore ELSE 0 ] :
        t \in Contents }

\* A constructed pipeline serving calls: built from the corpus, or loaded
\* from a pair whose metadata is behind its index by the n documents added
\* before a rebuild died between the two writes.
ReadyPipeline(behind) ==
    /\ corpus \in Corpora
    /\ \E n \in 0..Len(corpus) :
          /\ Len(corpus) - n \in behind
          /\ docs = SubSeq(corpus, 1, n)
    /\ index = BuiltIndex(corpus)
    /\ indexFile = [ st |-> Written, data |-> WriteIndex(index) ]
    /\ metaFile = [ st |-> Written, data |-> JsonDump(docs) ]
    /\ pc = "ready"
    /\ origin = "loaded"
    /\ force_rebuild = FALSE
    /\ batch_size = 1
    /\ batch = << >>
    /\ pos = 0
    /\ call = NoCall
    /\ midWrite = FALSE
    /\ crossEncoder \in QueryWeights
    /\ rr = NoRerank
    /\ encodeCalls = << >>
    /\ first = NoneKept
    /\ ServicesDown

InitQuery == ReadyPipeline(0..MaxDocs)

NextQuery ==
    \/ \E q \in Queries, use \in BOOLEAN, k \in TopKs, fault \in Faults :
          QueryCall(q, use, k, fault)
    \/ \E q \in Queries, use \in BOOLEAN, fault \in Faults :
          QueryMainCall(q, use, fault)
    \/ \E q \in Queries, k \in TopKs : call.op = "none" /\ RetrieveCall(q, k)
    \/ ReturnCall

SpecQuery == InitQuery /\ [][NextQuery]_vars

\* calls on a working scoring model, with the caller comparing results
\* across calls
InitRepeat == ReadyPipeline({ 0 })

NextRepeat ==
    \/ \E q \in Queries, use \in BOOLEAN, k \in TopKs :
          QueryCall(q, use, k, "none")
    \/ KeepResult
    \/ ReturnCall

SpecRepeat == InitRepeat /\ [][NextRepeat]_vars

\* ------------------------------------------------ services/singletons.py
Getters == { "get_rag", "get_feedback" }

\* the global a getter reads and assigns
Singleton(fn) == IF fn = "get_rag" THEN rag ELSE feedback

\* everything outside singletons.py
pipeline == << corpus, disk, pc, args, memory, origin, call, midWrite,
               ranker, encodeCalls, first >>

At(t, where) == thread[t].pc = where

Goto(t, where) == thread' = [ thread EXCEPT ![t].pc = where ]

\* a thread calls get_rag() or get_feedback()
GetCall(t, fn) ==
    /\ At(t, "idle")
    /\ thread' = [ thread EXCEPT ![t] = [ fn |-> fn, pc |-> "test",
                                          got |-> 0 ] ]
    /\ UNCHANGED << rag, feedback, lock, constructed, pipeline >>

\* "if _rag is None:" outside the lock
TestSingleton(t) ==
    /\ At(t, "test")
    /\ Goto(t, IF Singleton(thread[t].fn) = 0 THEN "acquire" ELSE "return")
    /\ UNCHANGED << rag, feedback, lock, constructed, pipeline >>

\* "with _lock:" entered: blocks while another thread holds the lock
AcquireLock(t) ==
    /\ At(t, "acquire")
    /\ lock = 0
    /\ lock' = t
    /\ Goto(t, "retest")
    /\ UNCHANGED << rag, feedback, constructed, pipeline >>

\* a getter that constructs without testing again under the lock
RetestSingletonSkipped(t) ==
    /\ At(t, "retest")
    /\ Goto(t, "construct")
    /\ UNCHANGED << rag, feedback, lock, constructed, pipeline >>

\* "if _rag is None:" under the lock
RetestSingleton(t) ==
    /\ At(t, "retest")
    /\ Goto(t, IF Singleton(thread[t].fn) = 0 THEN "construct" ELSE "release")
    /\ UNCHANGED << rag, feedback, lock, constructed, pipeline >>

\* a constructor call whose exception leaves the lock held
MakeSingletonHolding(t) ==
    /\ At(t, "construct")
    /\ \/ /\ constructed[thread[t].fn] < MaxMade
          /\ constructed' = [ constructed EXCEPT ![thread[t].fn] = @ + 1 ]
          /\ IF thread[t].fn = "get_rag"
             THEN rag' = constructed'.get_rag /\ feedback' = feedback
             ELSE feedback' = constructed'.get_feedback /\ rag' = rag
          /\ Goto(t, "release")
          /\ lock' = lock
       \/ /\ Goto(t, "raised")
          /\ UNCHANGED << rag, feedback, lock, constructed >>
    /\ UNCHANGED pipeline

\* "_rag = RAG(...)": the constructor returns and the global is assigned,
\* or the constructor raises and the with statement releases the lock
MakeSingleton(t) ==
    /\ At(t, "construct")
    /\ \/ /\ constructed[thread[t].fn] < MaxMade
          /\ constructed' = [ constructed EXCEPT ![thread[t].fn] = @ + 1 ]
          /\ IF thread[t].fn = "get_rag"
             THEN rag' = constructed'.get_rag /\ feedback' = feedback
             ELSE feedback' = constructed'.get_feedback /\ rag' = rag
          /\ Goto(t, "release")
          /\ lock' = lock
       \/ /\ Goto(t, "raised")
          /\ lock' = 0
          /\ UNCHANGED << rag, feedback, constructed >>
    /\ UNCHANGED pipeline

\* the with statement is left
ReleaseLock(t) ==
    /\ At(t, "release")
    /\ lock' = 0
    /\ Goto(t, "return")
    /\ UNCHANGED << rag, feedback, constructed, pipeline >>

\* "return _rag": the global is read once more
ReturnSingleton(t) ==
    /\ At(t, "return")
    /\ thread' = [ thread EXCEPT ![t].pc = "returned",
                                 ![t].got = Singleton(thread[t].fn) ]
    /\ UNCHANGED << rag, feedback, lock, constructed, pipeline >>

\* the caller goes on with the instance, or with the exception
FinishCall(t) ==
    /\ thread[t].pc \in { "returned", "raised" }
    /\ thread' = [ thread EXCEPT ![t] = Idle ]
    /\ UNCHANGED << rag, feedback, lock, constructed, pipeline >>

NextSingletons ==
    \E t \in Threads :
       \/ \E fn \in Getters : GetCall(t, fn)
       \/ TestSingleton(t)
       \/ AcquireLock(t)
       \/ RetestSingleton(t)
       \/ MakeSingleton(t)
       \/ ReleaseLock(t)
       \/ ReturnSingleton(t)
       \/ FinishCall(t)

\* the server has imported singletons.py and no getter has been called
InitSingletons == Init /\ corpus = << >>

SpecSingletons == InitSingletons /\ [][NextSingletons]_vars

\* ------------------------------------------------- rerank on its own
\* the query texts the rerank calls below use
RerankQueries == { 0 }

\* The reranker called on any candidate list, with any weights on the
\* pairs those calls can form; the score of a pair that no call forms is
\* left at 0.
InitRerank ==
    /\ corpus = << >>
    /\ indexFile = NoIndexFile
    /\ metaFile = NoMetaFile
    /\ pc = "down"
    /\ force_rebuild = FALSE
    /\ batch_size = 1
    /\ docs = << >>
    /\ index = NoneIndex
    /\ batch = << >>
    /\ pos = 0
    /\ origin = "none"
    /\ call = NoCall
    /\ midWrite = FALSE
    /\ crossEncoder \in [ Queries \X Contents -> Scores ]
    /\ \A p \in Queries \X Contents :
           p[1] \notin RerankQueries => crossEncoder[p] = 0
    /\ rr = NoRerank
    /\ encodeCalls = << >>
    /\ first = NoneKept
    /\ ServicesDown

\* a rerank that calls predict once for every pair
RerankCallPerPair(query, documents, top_k) ==
    /\ rr.op = "none"
    /\ \E r \in RerankOutcomes(query, documents, top_k) :
          rr' = [ op |-> "rerank", query |-> query, documents |-> documents,
                  top_k |-> top_k,
                  predicted |-> [ i \in 1..Len(documents) |->
                                    << Pairs(query, documents)[i] >> ],
                  result |-> r ]
    /\ UNCHANGED << corpus, disk, pc, args, memory, origin, call, midWrite,
                    crossEncoder, encodeCalls, first, services >>

\* Reranker().rerank(query, documents, top_k)
RerankCall(query, documents, top_k) ==
    /\ rr.op = "none"
    /\ \E r \in RerankOutcomes(query, documents, top_k) :
          rr' = [ op |-> "rerank", query |-> query, documents |-> documents,
                  top_k |-> top_k,
                  predicted |-> << Pairs(query, documents) >>,
                  result |-> r ]
    /\ UNCHANGED << corpus, disk, pc, args, memory, origin, call, midWrite,
                    crossEncoder, encodeCalls, first, services >>

\* the caller is done with the returned list
RerankReturn ==
    /\ rr.op = "rerank"
    /\ rr' = NoRerank
    /\ UNCHANGED << corpus, disk, pc, args, memory, origin, call, midWrite,
                    crossEncoder, encodeCalls, first, services >>

NextRerank ==
    \/ \E q \in RerankQueries, ds \in Corpora, k \in TopKs :
          RerankCall(q, ds, k)
    \/ RerankReturn

SpecRerank == InitRerank /\ [][NextRerank]_vars

\* ----------------------------------------------------------------- claims
BuildDone ==
    /\ origin \in { "building", "built" }
    /\ pc \in { "openIndex", "writeIndex", "openMeta", "dumpMeta", "ready" }

Retrieved == pc = "ready" /\ call.op = "retrieve"

\* C1: a load of an existing pair (forceRebuild = false) never yields a
\* pipeline whose index holds another number of embeddings than the
\* metadata holds documents (stated for a pair that holds documents).
C1_LoadValidatesSizes ==
    (pc = "ready" /\ origin = "loaded" /\ index.exists /\ docs # << >>)
    => NTotal(index) = Len(docs)

\* C2: after a finished build the index holds one embedding per corpus
\* document, the metadata is the corpus in order, and the embedding at
\* every position is the encoding of the content of the document there.
C2_BuildLockstep ==
    BuildDone =>
        /\ NTotal(index) = Len(corpus)
        /\ docs = corpus
        /\ \A i \in 1..Len(corpus) :
               index.vecs[i] = EncodeOne(corpus[i].content)

\* C2's case: a build over the longest corpus with the largest batch size
\* that ended with a partial last batch.
C2_Witness ==
    /\ BuildDone
    /\ pc = "openIndex"
    /\ Len(corpus) = MaxDocs
    /\ batch_size = MaxBatch
    /\ batch # << >>

\* C3: retrieve with k above the index size returns exactly one document
\* per index position and raises nothing.
C3_ClampToIndexSize ==
    ( /\ Retrieved
      /\ index.exists
      /\ NTotal(index) >= 1
      /\ NTotal(index) = Len(docs)
      /\ call.top_k > NTotal(index) )
    => /\ call.result.status = "ok"
       /\ Len(call.result.docs) = NTotal(index)

\* C4: when the search returns a position without a metadata entry (-1,
\* or one past the metadata), retrieve fails instead of returning
\* documents.
C4_LookupMissRaises ==
    ( /\ Retrieved
      /\ index.exists
      /\ \E i \in 1..call.top_k :
            LET label == IndexSearch(index, EncodeOne(call.query), call.top_k)[i]
            IN  label < 0 \/ label >= Len(docs) )
    => call.result.status # "ok"

\* C5: after a crash between the index write and the metadata write, a
\* construction with forceRebuild = false ends in a fatal error: it neither
\* starts a build nor loads the pair on disk (stated for an index file
\* that holds embeddings).
C5_CrashBetweenWritesIsFatal ==
    [][ ( /\ pc = "down"
          /\ midWrite
          /\ indexFile.data.fourcc = "IxF2"
          /\ pc' # "down"
          /\ ~force_rebuild' )
        => pc' = "failed" ]_vars

\* squared distance of the vector at position i to the query of the call
DistAt(i) == L2Sqr(index.vecs[i], EncodeOne(call.query))

\* position i comes before position j: nearer, or as near and lower
Before(i, j) == DistAt(i) < DistAt(j) \/ (DistAt(i) = DistAt(j) /\ i < j)

RankOf(j) == Cardinality({ i \in 1..NTotal(index) : Before(i, j) }) + 1

\* C9: with 1 <= k <= N, retrieve returns the documents at the k nearest
\* positions by squared L2 distance, nearest first, equal distances in
\* order of position.
C9_NearestFirst ==
    ( /\ Retrieved
      /\ index.exists
      /\ NTotal(index) = Len(docs)
      /\ call.top_k <= NTotal(index) )
    => /\ call.result.status = "ok"
       /\ Len(call.result.docs) = call.top_k
       /\ \A j \in 1..NTotal(index) :
              RankOf(j) <= call.top_k => call.result.docs[RankOf(j)] = docs[j]

\* C9's case: two different documents at the same distance, the one at
\* the lower position returned and the other cut off by k.
C9_Witness ==
    /\ Retrieved
    /\ index.exists
    /\ NTotal(index) = Len(docs)
    /\ call.top_k < NTotal(index)
    /\ call.result.status = "ok"
    /\ \E i, j \in 1..NTotal(index) :
          /\ i < j
          /\ DistAt(i) = DistAt(j)
          /\ docs[i] # docs[j]
          /\ RankOf(i) = call.top_k
          /\ \E m \in 1..NTotal(index) : DistAt(m) < DistAt(i)

\* C10: a build of an empty corpus succeeds, and retrieve on an index
\* holding nothing returns the empty sequence without an error.
C10_EmptyIndexEmptyResult ==
    /\ (origin = "building" /\ Len(corpus) = 0) => pc # "failed"
    /\ (Retrieved /\ NTotal(index) = 0) => call.result = Ok(<< >>)

\* candidate i of the call goes before candidate j in a stable descending
\* order: higher score, or equal score and earlier in the input
ScoreOf(i) == crossEncoder[<< rr.query, rr.documents[i].content >>]

Ahead(i, j) == ScoreOf(i) > ScoreOf(j) \/ (ScoreOf(i) = ScoreOf(j) /\ i < j)

PlaceOf(j) == Cardinality({ i \in 1..Len(rr.documents) : Ahead(i, j) }) + 1

Reranked == rr.op = "rerank" /\ rr.documents # << >>

\* C6: rerank returns the candidates by descending score, candidates of
\* equal score in their input order.
C6_StableDescending ==
    Reranked =>
        /\ rr.result.status = "ok"
        /\ \A j \in 1..Len(rr.documents) :
               PlaceOf(j) <= Len(rr.result.docs)
               => rr.result.docs[PlaceOf(j)] = rr.documents[j]

\* C6's case: candidates [A, B, C] scored [low, low, high] with topK = 3
\* come back as [C, A, B].
C6_Witness ==
    /\ Reranked
    /\ rr.top_k = 3
    /\ Len(rr.documents) = 3
    /\ ScoreOf(1) = ScoreOf(2)
    /\ ScoreOf(3) > ScoreOf(1)
    /\ rr.documents[1] # rr.documents[2]
    /\ rr.result = Ok(<< rr.documents[3], rr.documents[1], rr.documents[2] >>)

\* C7: rerank of an empty candidate list returns the empty sequence and
\* does not call the scoring model.
C7_EmptyShortCircuit ==
    (rr.op = "rerank" /\ rr.documents = << >>)
    => /\ rr.result = Ok(<< >>)
       /\ rr.predicted = << >>

\* how often document d occurs in the list ds
Occurrences(ds, d) == Cardinality({ i \in 1..Len(ds) : ds[i] = d })

Min(a, b) == IF a < b THEN a ELSE b

\* C8: rerank returns min(topK, n) documents without an error, none more
\* often than the input holds it, and no candidate left out outscores a
\* returned one.
C8_TruncateToTopK ==
    rr.op = "rerank" =>
        /\ rr.result.status = "ok"
        /\ Len(rr.result.docs) = Min(rr.top_k, Len(rr.documents))
        /\ \A d \in DocPool :
               Occurrences(rr.result.docs, d) <= Occurrences(rr.documents, d)
        /\ \A s \in Scores :
               LET have == Cardinality({ i \in 1..Len(rr.documents) : ScoreOf(i) > s })
                   got == Cardinality({ i \in 1..Len(rr.result.docs) :
                              crossEncoder[<< rr.query, rr.result.docs[i].content >>] > s })
               IN  got = Min(have, Len(rr.result.docs))

Queried == pc = "ready" /\ call.op \in { "query", "query_main" }

\* C11: query with use_reranker = false returns, or raises, exactly what
\* retrieve with the same text and top_k does under the same encoder,
\* constructs no Reranker and hands nothing to predict.
C11_NoRerankIsRetrieve ==
    (Queried /\ ~call.use_reranker)
    => /\ call.result = RetrieveOutcome(call.fault, call.query, call.top_k)
       /\ call.rerankers = 0
       /\ call.predicted = << >>

\* C11's case: two or more documents came back un-reranked although the
\* scoring model prefers the last of them to the first and is broken.
C11_Witness ==
    /\ Queried
    /\ ~call.use_reranker
    /\ call.fault = "model"
    /\ call.result.status = "ok"
    /\ LET got == call.result.docs
       IN  /\ Len(got) >= 2
           /\ crossEncoder[<< call.query, got[Len(got)].content >>]
                > crossEncoder[<< call.query, got[1].content >>]

\* C12: when predict raises during query with use_reranker = true, query
\* ends with that exception and returns no documents.
C12_ModelFailurePropagates ==
    ( /\ Queried
      /\ call.use_reranker
      /\ call.fault = "model"
      /\ Retrieve(index, docs, call.query, call.recall).status = "ok" )
    => call.result = Raised("ModelError")

\* C12's case: predict was handed the pairs of the retrieved documents and
\* raised.
C12_Witness ==
    /\ Queried
    /\ call.use_reranker
    /\ call.fault = "model"
    /\ call.rerankers = 1
    /\ Len(call.predicted) = 1
    /\ Len(call.predicted[1]) = call.recall
    /\ call.result.status = "ModelError"

\* C13: a query call whose scoring model works returns what an earlier
\* call with the same text, use_reranker and top_k returned, whatever
\* calls ran between the two.
C13_RepeatedQuerySameResult ==
    ( /\ pc = "ready"
      /\ first.call.op = "query"
      /\ call.op = "query"
      /\ call.fault = "none"
      /\ SameArguments(first.call, call) )
    => call.result = first.call.result

\* C13's case: a reranked query, whose rerank changed the retrieved
\* order, repeated after a call with other arguments.
C13_Witness ==
    /\ pc = "ready"
    /\ first.call.op = "query"
    /\ first.between
    /\ call.op = "query"
    /\ call.fault = "none"
    /\ call.use_reranker
    /\ SameArguments(first.call, call)
    /\ call.result.status = "ok"
    /\ Len(call.result.docs) >= 2
    /\ call.result.docs
         # Slice(Retrieve(index, docs, call.query, call.top_k).docs,
                 DefaultTopK)

\* C14: a construction with force_rebuild false while both files exist
\* starts no build, reads no corpus document, encodes nothing and leaves
\* both files as they were; when it succeeds, the pipeline holds exactly
\* the index and the metadata of the files.
C14_LoadIsReadOnly ==
    [][ ( /\ pc = "down"
          /\ pc' # "down"
          /\ ~force_rebuild'
          /\ Exists(indexFile)
          /\ Exists(metaFile) )
        => /\ pc' \in { "ready", "failed" }
           /\ disk' = disk
           /\ pos' = 0
           /\ encodeCalls' = << >>
           /\ pc' = "ready" => /\ index' = ReadIndex(indexFile.data)
                               /\ docs' = JsonLoad(metaFile.data) ]_vars

\* C14's case: a pair that holds documents was loaded although the corpus
\* has grown since it was built.
C14_Witness ==
    /\ pc = "ready"
    /\ origin = "loaded"
    /\ docs # << >>
    /\ docs # corpus
    /\ index = ReadIndex(indexFile.data)
    /\ NTotal(index) = Len(docs)
    /\ metaFile.data = JsonDump(docs)

\* C15: a construction with force_rebuild true, or with a file missing,
\* starts from an empty index and empty metadata; when it ends, the
\* pipeline holds the corpus and its encodings and both files hold exactly
\* that index and that metadata.
C15_BuildReplacesArtifacts ==
    [][ /\ ( /\ pc = "down"
             /\ pc' # "down"
             /\ force_rebuild' \/ ~Exists(indexFile) \/ ~Exists(metaFile) )
           => /\ pc' = "build"
              /\ docs' = << >>
              /\ index' = NoneIndex
              /\ pos' = 0
              /\ encodeCalls' = << >>
        /\ (pc # "ready" /\ pc' = "ready" /\ origin' = "built")
           => /\ docs' = corpus
              /\ index' = BuiltIndex(corpus)
              /\ indexFile' = [ st |-> Written, data |-> WriteIndex(index') ]
              /\ metaFile' = [ st |-> Written, data |-> JsonDump(docs') ] ]_vars

\* C15's case: a build of the longest corpus has ended and replaced both
\* files.
C15_Witness ==
    /\ pc = "ready"
    /\ origin = "built"
    /\ Len(corpus) = MaxDocs
    /\ indexFile = [ st |-> Written, data |-> WriteIndex(index) ]
    /\ metaFile = [ st |-> Written, data |-> JsonDump(docs) ]
    /\ docs = corpus

\* both files are as a finished build of the current corpus left them
PairOfThisCorpus ==
    /\ indexFile.st = Written
    /\ metaFile.st = Written
    /\ ~midWrite
    /\ metaFile.data = JsonDump(corpus)

\* C16: when a build has finished in memory while the pair that an earlier
\* build of the same corpus persisted is still on disk, retrieve on the new
\* index and metadata returns, for every query and k, what retrieve on the
\* loaded earlier pair returns, whatever batch sizes the two builds used.
C16_RebuildSameRetrieval ==
    (pc = "openIndex" /\ origin = "building" /\ PairOfThisCorpus)
    => \A q \in Queries, k \in TopKs :
          Retrieve(index, docs, q, k)
            = Retrieve(ReadIndex(indexFile.data), JsonLoad(metaFile.data),
                       q, k)

\* C16's case: a forced rebuild of the longest corpus with the largest
\* batch size over the pair of an earlier build of that corpus.
C16_Witness ==
    /\ pc = "openIndex"
    /\ origin = "building"
    /\ PairOfThisCorpus
    /\ force_rebuild
    /\ batch_size = MaxBatch
    /\ Len(corpus) = MaxDocs
    /\ Len(encodeCalls) = 2

WritePhase == pc \in { "openIndex", "writeIndex", "openMeta", "dumpMeta" }

\* C17: no step of the build loop touches a file, and a file changes only
\* once the corpus stream is exhausted and every document is indexed; a
\* build that fails while reading or encoding therefore ends in the failed
\* state with both files as they were before the construction.
C17_FailedBuildLeavesArtifacts ==
    [][ /\ pc = "build" => disk' = disk
        /\ disk' # disk => /\ WritePhase
                           /\ pos = Len(corpus)
                           /\ NTotal(index) = Len(corpus)
                           /\ docs = corpus ]_vars

\* C17's case: a forced rebuild over the pair of an earlier build failed
\* after it had read documents, and the pair is still whole.
C17_Witness ==
    /\ pc = "failed"
    /\ origin = "building"
    /\ force_rebuild
    /\ pos >= 1
    /\ docs # << >>
    /\ indexFile.st = Written
    /\ metaFile.st = Written
    /\ ~midWrite
    /\ metaFile.data # << >>
    /\ indexFile.data.ntotal = Len(metaFile.data)

\* C18 as the specification states it: every query call hands the recall
\* size 3 to retrieve, whatever top_k the caller asked for (stated for
\* calls that return documents).
C18_RecallAlwaysThree ==
    (Queried /\ call.result.status = "ok") => call.recall = FixedRecall

\* C18: pipeline.py's query hands the top_k of its caller to retrieve;
\* main.py's query, which takes no top_k, hands it 3.
C18_RecallIsRequestedTopK ==
    /\ (pc = "ready" /\ call.op = "query") => call.recall = call.top_k
    /\ (pc = "ready" /\ call.op = "query_main") => call.recall = FixedRecall

\* C18's case: pipeline.py's query was asked for more than 3 documents,
\* retrieved that many and had all of them scored.
C18_Witness ==
    /\ pc = "ready"
    /\ call.op = "query"
    /\ call.use_reranker
    /\ call.top_k > FixedRecall
    /\ call.result.status = "ok"
    /\ Len(call.predicted[1]) = call.top_k

\* C19: at the start of every iteration of the build loop the batch buffer
\* holds fewer than batch_size texts, so that it never holds more than
\* batch_size; a step makes at most one encode call, no encode call gets
\* more than batch_size texts, and after a flush inside the loop the
\* buffer is empty.
C19_BatchBufferBounded ==
    [][ pc = "build"
        => /\ Len(batch) < batch_size
           /\ Len(batch') <= batch_size
           /\ Len(encodeCalls') <= Len(encodeCalls) + 1
           /\ \A i \in 1..Len(encodeCalls') :
                  Len(encodeCalls'[i]) <= batch_size
           /\ (pc' = "build" /\ encodeCalls' # encodeCalls)
              => /\ batch' = << >>
                 /\ Len(encodeCalls'[Len(encodeCalls')]) = batch_size ]_vars

\* C19's case: a full batch of the largest size has just been flushed and
\* the stream has more documents.
C19_Witness ==
    /\ pc = "build"
    /\ batch_size = MaxBatch
    /\ Len(encodeCalls) >= 1
    /\ Len(encodeCalls[Len(encodeCalls)]) = MaxBatch
    /\ batch = << >>
    /\ pos < Len(corpus)

\* C20: when the build loop of a corpus of N documents with batch size B
\* has ended, encode was called ceil(N / B) times, every call but the last
\* with B texts, the last with the N - B * (calls - 1) >= 1 remaining
\* ones, and the texts of all calls in order are the contents of the
\* corpus in order.
C20_EncodeCallsPartitionCorpus ==
    (WritePhase /\ origin = "building") =>
        LET N == Len(corpus)
            B == batch_size
            calls == Len(encodeCalls)
        IN  /\ calls = (N + B - 1) \div B
            /\ \A i \in 1..(calls - 1) : Len(encodeCalls[i]) = B
            /\ calls >= 1 =>
                  /\ Len(encodeCalls[calls]) = N - B * (calls - 1)
                  /\ Len(encodeCalls[calls]) >= 1
            /\ Flatten(encodeCalls) = [ i \in 1..N |-> corpus[i].content ]

\* C20's case: the longest corpus was built with the largest batch size
\* that does not divide its length, so the last call got the remainder.
C20_Witness ==
    /\ WritePhase
    /\ origin = "building"
    /\ Len(corpus) = MaxDocs
    /\ batch_size = MaxBatch
    /\ Len(encodeCalls) >= 2
    /\ Len(encodeCalls[Len(encodeCalls)]) = MaxDocs % MaxBatch
    /\ MaxDocs % MaxBatch >= 1

\* C21: in the build loop the index comes into being with the first encode
\* call, with the dimension of that batch's embeddings; an existing index
\* keeps its dimension and holds only vectors of that dimension; and a
\* step whose encoded batch is not added ends in the failed state with the
\* index as it was.
C21_DimensionFixedAtFirstBatch ==
    [][ (pc = "build" /\ pc' \in { "build", "openIndex", "failed" })
        => /\ index'.exists <=> encodeCalls' # << >>
           /\ index.exists => index'.d = index.d
           /\ (~index.exists /\ index'.exists)
              => /\ Len(encodeCalls') = 1
                 /\ index'.d = Dim(Encode(encodeCalls'[1]))
           /\ \A i \in 1..NTotal(index') : Len(index'.vecs[i]) = index'.d
           /\ (encodeCalls' # encodeCalls /\ NTotal(index') = NTotal(index))
              => /\ pc' = "failed"
                 /\ index' = index ]_vars

\* C21's case: a build failed on a later batch whose embeddings had
\* another dimension; the index holds the earlier batches only.
C21_Witness ==
    /\ pc = "failed"
    /\ origin = "building"
    /\ index.exists
    /\ Len(encodeCalls) >= 2
    /\ NTotal(index) >= 1
    /\ Len(Flatten(encodeCalls)) > NTotal(index)
    /\ \A i \in 1..NTotal(index) : Len(index.vecs[i]) = index.d

\* C22: a rerank call on n >= 1 candidates hands the scoring model one
\* list, of n pairs, the i-th pair being the query and the content of the
\* i-th candidate.
C22_OnePredictCall ==
    Reranked =>
        /\ Len(rr.predicted) = 1
        /\ Len(rr.predicted[1]) = Len(rr.documents)
        /\ \A i \in 1..Len(rr.documents) :
               rr.predicted[1][i] = << rr.query, rr.documents[i].content >>

\* C22's case: the longest candidate list, not in order of content, was
\* scored in one call.
C22_Witness ==
    /\ Reranked
    /\ Len(rr.documents) = MaxDocs
    /\ rr.documents[1].content > rr.documents[2].content
    /\ Len(rr.predicted) = 1
    /\ rr.result.status = "ok"

\* C23: a query call in which encode raises, or retrieve raises on the
\* search or on the metadata lookup, or predict raises, ends with exactly
\* that exception, and a call that ends with an exception returns no
\* documents.
C23_NoFailureSwallowed ==
    Queried =>
        LET got == Retrieve(index, docs, call.query, call.recall)
        IN  /\ call.fault = "encoder" => call.result = Raised("EncoderError")
            /\ (call.fault # "encoder" /\ got.status # "ok")
               => call.result = got
            /\ (call.fault = "model" /\ call.use_reranker /\ got.status = "ok")
               => call.result = Raised("ModelError")
            /\ call.result.status # "ok" => call.result.docs = << >>

\* C23's case: encode raised in a query call with the reranker on, on a
\* pipeline that would have returned documents.
C23_Witness ==
    /\ Queried
    /\ call.fault = "encoder"
    /\ call.use_reranker
    /\ call.result = Raised("EncoderError")
    /\ call.rerankers = 0
    /\ Retrieve(index, docs, call.query, call.recall).status = "ok"

Persisted ==
    /\ pc = "ready"
    /\ origin = "built"
    /\ indexFile = [ st |-> Written, data |-> WriteIndex(index) ]
    /\ metaFile = [ st |-> Written, data |-> JsonDump(docs) ]

\* C24: a build of a well-formed corpus, with an encoder that returns,
\* eventually ends with both artifacts persisted.
C24_BuildEndsPersisted ==
    (pc = "build") ~> Persisted

\* C25: no retrieve or query call on a constructed pipeline, whether it
\* returns or raises, and no step between calls changes the index, the
\* metadata list or either artifact file.
C25_ReadOnlyAfterConstruction ==
    [][ (pc = "ready" /\ pc' = "ready")
        => /\ index' = index
           /\ docs' = docs
           /\ indexFile' = indexFile
           /\ metaFile' = metaFile ]_vars

\* C25's case: a query call whose rerank changed the retrieved order has
\* returned, and the pipeline and both files are as construction left
\* them.
C25_Witness ==
    /\ Queried
    /\ call.use_reranker
    /\ call.result.status = "ok"
    /\ call.result.docs
         # Slice(Retrieve(index, docs, call.query, call.recall).docs,
                 DefaultTopK)
    /\ index = BuiltIndex(corpus)
    /\ indexFile = [ st |-> Written, data |-> WriteIndex(index) ]
    /\ metaFile = [ st |-> Written, data |-> JsonDump(docs) ]
    /\ docs # << >>

\* C26: RAG's constructor returns at most once, and every get_rag call
\* that has returned got that one instance, never None.
C26_RagConstructedOnce ==
    /\ constructed.get_rag <= 1
    /\ \A t \in Threads :
          (thread[t].fn = "get_rag" /\ At(t, "returned"))
          => /\ thread[t].got # 0
             /\ thread[t].got = 1
             /\ thread[t].got = rag

\* C26's case: two threads that both found _rag None outside the lock
\* have both returned from get_rag.
C26_Witness ==
    /\ constructed.get_rag = 1
    /\ \A t \in 1..2 : thread[t].fn = "get_rag" /\ At(t, "returned")
    /\ lock = 0

\* the holder of the lock is inside the with block, where it can always
\* take a step, and no thread waits for a lock it holds
LockHolderRuns ==
    /\ lock # 0 => thread[lock].pc \in { "retest", "construct", "release" }
    /\ \A t \in Threads :
          thread[t].pc \in { "retest", "construct", "release" } => lock = t

\* C27: both getters use the one lock, whose holder can always go on, so
\* no thread waits forever; and a constructor that raises leaves the lock
\* free and the singleton None, so that the next call constructs again.
C27_OneLockNoDeadlock ==
    /\ []LockHolderRuns
    /\ [][ \A t \in Threads :
             (At(t, "construct") /\ thread'[t].pc = "raised")
             => /\ lock' = 0
                /\ Singleton(thread[t].fn) = 0
                /\ rag' = rag
                /\ feedback' = feedback ]_vars

\* C27's case: after get_rag raised in one thread, another thread holds
\* the lock and is in RAG's constructor, while nothing was constructed.
C27_Witness ==
    \E t, u \in Threads :
        /\ thread[t].fn = "get_rag" /\ At(t, "raised")
        /\ thread[u].fn = "get_rag" /\ At(u, "construct")
        /\ lock = u
        /\ rag = 0
        /\ constructed.get_rag = 0

\* C28: reading back the two files a finished build wrote gives exactly
\* the index and the metadata the builder holds, and a pipeline loaded
\* from the whole pair of a finished build holds the index a build of its
\* metadata holds; retrieve, a function of the two, agrees on both.
C28_PersistenceRoundTrip ==
    /\ (pc = "ready" /\ origin = "built")
       => /\ ReadIndex(indexFile.data) = index
          /\ JsonLoad(metaFile.data) = docs
    /\ (pc = "ready" /\ origin = "loaded" /\ ~midWrite)
       => /\ index = BuiltIndex(docs)
          /\ docs = JsonLoad(metaFile.data)
          /\ index = ReadIndex(indexFile.data)

\* C28's case: the pair of a finished build of the longest corpus, whose
\* documents differ, was loaded by a later process.
C28_Witness ==
    /\ pc = "ready"
    /\ origin = "loaded"
    /\ ~midWrite
    /\ Len(docs) = MaxDocs
    /\ docs[1] # docs[2]
    /\ NTotal(index) = MaxDocs
    /\ index.vecs[1] # index.vecs[2]

\* C29: a query that reranks and returns never returns more than 3
\* documents, whatever top_k it was asked for; pipeline.py's query that
\* does not rerank and returns, returns top_k entries.
C29_RerankedAtMostThree ==
    /\ (Queried /\ call.use_reranker /\ call.result.status = "ok")
       => Len(call.result.docs) <= DefaultTopK
    /\ (Queried /\ call.op = "query" /\ ~call.use_reranker
          /\ call.result.status = "ok")
       => Len(call.result.docs) = call.top_k

\* C29's case: a reranking query asked for more than 3 documents returned
\* 3, where the same call without the reranker returns as many as asked.
C29_Witness ==
    /\ Queried
    /\ call.op = "query"
    /\ call.use_reranker
    /\ call.top_k > DefaultTopK
    /\ call.result.status = "ok"
    /\ Len(call.result.docs) = DefaultTopK
    /\ Len(RetrieveOutcome("none", call.query, call.top_k).docs) = call.top_k

\* C30 as the specification states it: at every iteration boundary of the
\* build the metadata is as long as the index and the pending batch
\* together and leads the index by at most batch_size, and once documents
\* were read the two are equal only when the stream is exhausted.
C30_EqualOnlyAfterFinalFlush ==
    pc = "build"
    => /\ Len(docs) = NTotal(index) + Len(batch)
       /\ Len(docs) - NTotal(index) <= batch_size
       /\ (docs # << >> /\ Len(docs) = NTotal(index)) => pos = Len(corpus)

\* C30: at every iteration boundary of the build the metadata is as long
\* as the index and the pending batch together and leads the index by
\* fewer than batch_size documents; the two are equal exactly when the
\* pending batch is empty, and they are equal when _build_index returned.
C30_MetadataLeadsByPendingBatch ==
    /\ pc = "build"
       => /\ Len(docs) = NTotal(index) + Len(batch)
          /\ Len(docs) - NTotal(index) < batch_size
          /\ Len(docs) = NTotal(index) <=> batch = << >>
    /\ pc = "openIndex" => Len(docs) = NTotal(index)

\* C30's case: in the middle of a build, with documents still to come, a
\* flush inside the loop has made the index as long as the metadata.
C30_Witness ==
    /\ pc = "build"
    /\ pos < Len(corpus)
    /\ docs # << >>
    /\ index.exists
    /\ batch = << >>
    /\ Len(docs) = NTotal(index)

====
